---- MODULE Spec2Model ----
(***************************************************************************)
(* A model of the directory lister ls (src/ls/src/main.rs): main's loop    *)
(* over the target paths, the filter / sort / synthetic-entry pipeline,    *)
(* and the two renderers print_default and print_list, one step per call   *)
(* on the output stream.                                                   *)
(*                                                                         *)
(* Names are sequences of one-character strings, so that the first         *)
(* character, the length and the lower-cased form of a name are computed;  *)
(* what is written to a stream is a TLA+ string.                           *)
(*                                                                         *)
(* The file system is fixed: the root / with the entries d and E, the      *)
(* directory /d with the entries .h, a and B, and no /nx.  Every entry can *)
(* be stat'ed, so the unwraps of main.rs 37, 67-78 and 265-274 never       *)
(* panic.  The owner of /d/.h and the group of /E do not resolve, and the  *)
(* time of /E is not representable.  The identity database does not change *)
(* during a run.  read_dir may yield a directory's entries in any order,   *)
(* and any write call on the output stream may fail.                       *)
(***************************************************************************)
EXTENDS Naturals, Sequences, FiniteSets, TLC

\* ------------------------------------------------------------------ bounds

\* The number of command-line options given in one invocation.
MaxFlags == 3
\* The number of target paths given in one invocation.
MaxPaths == 2
\* The number of write calls on the output stream that fail in one run.
MaxWriteErrors == 1

\* ----------------------------------------------------------------- strings

\* The characters in use, in the order of their byte values.
Alphabet ==
    << ".", "/", "0", "1", "2", "3", "4", "5", "6", "7", "8", "9",
       "A", "B", "D", "E", "a", "b", "d", "e", "h" >>

Upper == << "A", "B", "D", "E" >>
Lower == << "a", "b", "d", "e" >>

Code(c) == CHOOSE i \in 1..Len(Alphabet) : Alphabet[i] = c

\* char::to_lowercase on one character
ToLowerChar(c) ==
    IF \E i \in 1..Len(Upper) : Upper[i] = c
    THEN Lower[CHOOSE i \in 1..Len(Upper) : Upper[i] = c]
    ELSE c

\* str::to_lowercase
to_lowercase(s) == [i \in 1..Len(s) |-> ToLowerChar(s[i])]

\* The string a sequence of characters spells.
RECURSIVE Str(_)
Str(s) == IF s = << >> THEN "" ELSE s[1] \o Str(Tail(s))

Digits == << "0", "1", "2", "3", "4", "5", "6", "7", "8", "9" >>

\* u64::to_string: the decimal digits of n, most significant first
RECURSIVE to_string(_)
to_string(n) ==
    IF n < 10 THEN << Digits[n + 1] >>
    ELSE Append(to_string(n \div 10), Digits[(n % 10) + 1])

Spaces(n) == [i \in 1..n |-> " "]

\* pad::PadStr::pad_to_width_with_alignment(width, Alignment::Right): a string
\* longer than the width is cut to it, a shorter one gets spaces on its left
pad_right_aligned(s, width) ==
    IF Len(s) >= width THEN SubSeq(s, 1, width)
    ELSE Spaces(width - Len(s)) \o s

\* pad::PadStr::pad_to_width(width): the same, the spaces on the right
pad_to_width(s, width) ==
    IF Len(s) >= width THEN SubSeq(s, 1, width)
    ELSE s \o Spaces(width - Len(s))

Reverse(s) == [i \in 1..Len(s) |-> s[Len(s) + 1 - i]]

\* Ord on sequences of numbers: lexicographic, a proper prefix first
RECURSIVE SeqLe(_, _)
SeqLe(a, b) ==
    IF a = << >> THEN TRUE
    ELSE IF b = << >> THEN FALSE
    ELSE IF a[1] # b[1] THEN a[1] < b[1]
    ELSE SeqLe(Tail(a), Tail(b))

\* ------------------------------------------------------------- file system

\* The target paths a run may be given: the root, a directory, a missing path.
Targets == { "/", "/d", "/nx" }

\* The entry names fs::read_dir finds in a directory that opens.
Children(p) ==
    IF p = "/" THEN { << "d" >>, << "E" >> }
    ELSE IF p = "/d" THEN { << ".", "h" >>, << "a" >>, << "B" >> }
    ELSE { }

\* fs::read_dir(p) is Ok
CanOpen(p) == p \in { "/", "/d" }

\* PathBuf::join
Join(p, name) == IF p = "/" THEN p \o Str(name) ELSE p \o "/" \o Str(name)

\* Path::parent
HasParent(p) == p # "/"
Parent(p) == CASE p = "/d" -> "/"

\* The owner and group names the identity database resolves.
Users == [u \in { 0, 1000 } |-> IF u = 0 THEN << "r" >> ELSE << "b", "e", "a" >>]
Groups == [g \in { 0, 100 } |-> IF g = 0 THEN << "r" >> ELSE << "a", "d" >>]

\* fs::metadata: the snapshot a File holds.  timeOk: the modification time is
\* representable, so that File::time is Ok.
Stat(ino, blk, nl, u, g, sz, mt, at, ok, dir) ==
    [ inode |-> ino, blocks |-> blk, nlink |-> nl, uid |-> u, gid |-> g,
      size |-> sz, mtime |-> mt, atime |-> at, timeOk |-> ok, isDir |-> dir ]

Metadata(p) ==
    CASE p = "/"     -> Stat(2, 8, 12, 0, 0, 64, 5, 9, TRUE, TRUE)
      [] p = "/d"    -> Stat(31, 8, 2, 1000, 100, 64, 7, 8, TRUE, TRUE)
      [] p = "/E"    -> Stat(107, 0, 1, 0, 77, 64, 7, 8, FALSE, FALSE)
      [] p = "/d/.h" -> Stat(9, 16, 1, 88, 0, 7, 3, 6, TRUE, FALSE)
      [] p = "/d/a"  -> Stat(40, 8, 1, 1000, 100, 5, 4, 2, TRUE, FALSE)
      [] p = "/d/B"  -> Stat(5, 120, 3, 0, 0, 2000, 1, 4, TRUE, FALSE)

\* -------------------------------------------------------------------- Flags

FlagNames ==
    { "all", "almost_all", "list", "inode", "size", "comma_separate", "no_owner",
      "reverse", "no_sort", "sort_size", "time", "last_accessed" }

\* Flags::from_matches: one boolean per option, set iff the option was given
from_matches(given) == [f \in FlagNames |-> f \in given]

\* Flags::show_hidden
show_hidden(fl) == fl.all \/ fl.almost_all

\* Flags::show_list
show_list(fl) == fl.list

\* --------------------------------------------------------------------- File

\* File::from / File::from_name: the name, the path and its metadata
File_from_name(name, p) == [ name |-> name, path |-> p, metadata |-> Metadata(p) ]

\* File::is_hidden
is_hidden(name) == Len(name) > 0 /\ name[1] = "."

\* File::file_name
file_name(file) == file.name

\* File::inode, File::blocks, File::hard_links, File::size
inode(file) == to_string(file.metadata.inode)
blocks(file) == to_string(file.metadata.blocks)
hard_links(file) == to_string(file.metadata.nlink)
size(file) == to_string(file.metadata.size)

\* File::permissions: the ten characters of the mode
permissions(file) == IF file.metadata.isDir THEN "drwxr-xr-x" ELSE "-rw-r--r--"

\* File::user, File::group: Ok(name) iff the database holds the id
user_ok(file) == file.metadata.uid \in DOMAIN Users
user(file) == Users[file.metadata.uid]
group_ok(file) == file.metadata.gid \in DOMAIN Groups
group(file) == Groups[file.metadata.gid]

\* File::time: Ok(text) iff the modification time is representable
time_ok(file) == file.metadata.timeOk
time(file) == << "0" >> \o to_string(file.metadata.mtime)

\* ------------------------------------------------------------ the sort keys

sort_by_access_time(file) == << file.metadata.atime >>

\* sort_by_name without the lower-casing
sort_by_name_raw(file) == [i \in 1..Len(file.name) |-> Code(file.name[i])]

sort_by_name(file) == LET l == to_lowercase(file.name) IN [i \in 1..Len(l) |-> Code(l[i])]

sort_by_size(file) == << file.metadata.size >>

sort_by_time(file) == << file.metadata.mtime >>

\* ------------------------------------------------- Vec::sort_by_key, stable

\* e goes behind every element whose key is not greater than its own
RECURSIVE InsertByKey(_, _)
InsertByKey(s, e) ==
    IF s = << >> THEN << e >>
    ELSE IF SeqLe(s[Len(s)].k, e.k) THEN Append(s, e)
    ELSE Append(InsertByKey(SubSeq(s, 1, Len(s) - 1), e), s[Len(s)])

RECURSIVE SortPairs(_)
SortPairs(s) ==
    IF s = << >> THEN << >>
    ELSE InsertByKey(SortPairs(SubSeq(s, 1, Len(s) - 1)), s[Len(s)])

\* keys[i] is the key of v[i]
sort_by_key(v, keys) ==
    LET pairs == [i \in 1..Len(v) |-> [k |-> keys[i], f |-> v[i]]]
        sorted == SortPairs(pairs)
    IN  [i \in 1..Len(v) |-> sorted[i].f]

AccessTimeKeys(v) == [i \in 1..Len(v) |-> sort_by_access_time(v[i])]
TimeKeys(v) == [i \in 1..Len(v) |-> sort_by_time(v[i])]
SizeKeys(v) == [i \in 1..Len(v) |-> sort_by_size(v[i])]
NameKeys(v) == [i \in 1..Len(v) |-> sort_by_name(v[i])]

\* --------------------------------------------- main: one target path's list

\* The orders in which read_dir may yield a directory's entries.
Orders(S) ==
    { o \in [1..Cardinality(S) -> S] : \A i, j \in 1..Cardinality(S) : o[i] = o[j] => i = j }

\* The filter's test without its negation
KeepNotNegated(file, fl) == is_hidden(file.name) \/ show_hidden(fl)

\* The filter's test: hidden entries pass only with -a or -A
Keep(file, fl) == ~is_hidden(file.name) \/ show_hidden(fl)

\* read_dir(..).map(File::from).filter(..).collect()
Collect(p, order, fl) ==
    LET all == [i \in 1..Len(order) |-> File_from_name(order[i], Join(p, order[i]))]
        Test(file) == Keep(file, fl)
    IN  SelectSeq(all, Test)

\* The order before -r is applied
SortKeyed(v, fl) ==
    IF fl.time
    THEN IF fl.last_accessed
         THEN Reverse(sort_by_key(v, AccessTimeKeys(v)))
         ELSE Reverse(sort_by_key(v, TimeKeys(v)))
    ELSE IF fl.sort_size
    THEN Reverse(sort_by_key(v, SizeKeys(v)))
    ELSE sort_by_key(v, NameKeys(v))

\* SortDir with -r applied to the name order alone
SortDirReverseNameOnly(v, fl) ==
    IF fl.no_sort THEN v
    ELSE IF fl.reverse /\ ~fl.time /\ ~fl.sort_size THEN Reverse(SortKeyed(v, fl))
    ELSE SortKeyed(v, fl)

\* if !flags.no_sort { .. if flags.reverse { dir.reverse() } }
SortDir(v, fl) ==
    IF fl.no_sort THEN v
    ELSE IF fl.reverse THEN Reverse(SortKeyed(v, fl)) ELSE SortKeyed(v, fl)

\* dot.path.parent().unwrap_or_else(|| current.as_path())
parent_path(p) == IF HasParent(p) THEN Parent(p) ELSE p

\* WithSynthetic with . and .. pushed behind the entries
WithSyntheticPushed(v, p, fl) ==
    IF fl.all \/ fl.no_sort
    THEN v \o << File_from_name(<< "." >>, p), File_from_name(<< ".", "." >>, parent_path(p)) >>
    ELSE v

\* if flags.all || flags.no_sort { dir.insert(0, dot); dir.insert(1, dot_dot) }
WithSynthetic(v, p, fl) ==
    IF fl.all \/ fl.no_sort
    THEN << File_from_name(<< "." >>, p), File_from_name(<< ".", "." >>, parent_path(p)) >> \o v
    ELSE v

\* The rows of one target path, from the order read_dir yields
Listing(p, order, fl) == WithSynthetic(SortDir(Collect(p, order, fl), fl), p, fl)

\* ------------------------------------------------------------- print_list

\* The write calls of one row, in their order
Columns(fl) ==
    (IF fl.inode THEN << "inode" >> ELSE << >>)
    \o (IF fl.size THEN << "blocks" >> ELSE << >>)
    \o << "permissions", "hard_links", "user" >>
    \o (IF fl.no_owner THEN << >> ELSE << "group" >>)
    \o << "size", "time", "name", "newline" >>

Max(a, b) == IF a > b THEN a ELSE b

\* WidthOver without the comparison: the width is the last value's length
RECURSIVE WidthOverUnguarded(_, _)
WidthOverUnguarded(lens, w) ==
    IF lens = << >> THEN w ELSE WidthOverUnguarded(Tail(lens), Head(lens))

\* One width of the first loop: from 1, raised by every longer value
RECURSIVE WidthOver(_, _)
WidthOver(lens, w) ==
    IF lens = << >> THEN w ELSE WidthOver(Tail(lens), Max(w, Head(lens)))

\* The first loop meets an owner or a group the database does not hold
LookupFails(v, fl) ==
    \E i \in 1..Len(v) : ~user_ok(v[i]) \/ (~fl.no_owner /\ ~group_ok(v[i]))

\* The six widths the first loop leaves, when no lookup fails
Widths(v, fl) ==
    [ inode      |-> IF fl.inode THEN WidthOver([i \in 1..Len(v) |-> Len(inode(v[i]))], 1) ELSE 1,
      blocks     |-> IF fl.size THEN WidthOver([i \in 1..Len(v) |-> Len(blocks(v[i]))], 1) ELSE 1,
      hard_links |-> WidthOver([i \in 1..Len(v) |-> Len(hard_links(v[i]))], 1),
      user       |-> WidthOver([i \in 1..Len(v) |-> Len(user(v[i]))], 1),
      group      |-> IF fl.no_owner THEN 1
                     ELSE WidthOver([i \in 1..Len(v) |-> Len(group(v[i]))], 1),
      size       |-> WidthOver([i \in 1..Len(v) |-> Len(size(v[i]))], 1) ]

\* What one write call of the second loop writes
Field(file, c, w) ==
    CASE c = "inode"       -> Str(pad_right_aligned(inode(file), w.inode)) \o " "
      [] c = "blocks"      -> Str(pad_right_aligned(blocks(file), w.blocks)) \o " "
      [] c = "permissions" -> permissions(file) \o " "
      [] c = "hard_links"  -> Str(pad_right_aligned(hard_links(file), w.hard_links)) \o " "
      [] c = "user"        -> Str(pad_to_width(user(file), w.user)) \o " "
      [] c = "group"       -> Str(pad_to_width(group(file), w.group)) \o " "
      [] c = "size"        -> Str(pad_right_aligned(size(file), w.size)) \o " "
      [] c = "time"        -> Str(time(file)) \o " "
      [] c = "name"        -> Str(file_name(file))
      [] c = "newline"     -> "\n"

\* ---------------------------------------------------------- print_default

\* What the write call for one file writes
DefaultField(file, fl) ==
    IF fl.comma_separate THEN Str(file_name(file)) \o ", " ELSE Str(file_name(file)) \o "\n"

\* -------------------------------------------------------------------- state

VARIABLES
    flags,      \* Flags::from_matches(&matches)
    files,      \* the target paths, matches.values_of("FILE")
    idx,        \* the index in files of the path the for loop is at
    pc,         \* where main is: loop, header, widths, list, default; or how it
                \* ended: returned, exited, failed, aborted
    dir,        \* the Vec<File> of the path being listed
    widths,     \* print_list's six widths
    row,        \* the file the renderer's loop is at
    col,        \* print_list: the write call of the row, an index in Columns
    out,        \* the output stream: one record per write call that succeeded
    errs,       \* the diagnostic stream: one line per eprintln
    exit_code,  \* main's exit_code
    status,     \* the exit status of the process, once it has ended
    nwerr,      \* the write calls that failed so far
    render_err  \* the paths whose renderer returned Err

vars ==
    << flags, files, idx, pc, dir, widths, row, col, out, errs, exit_code, status,
       nwerr, render_err >>

\* let multiple = files.len() > 1
multiple == Len(files) > 1

Ended == pc \in { "returned", "exited", "failed", "aborted" }

NoWidths ==
    [ inode |-> 1, blocks |-> 1, hard_links |-> 1, user |-> 1, group |-> 1, size |-> 1 ]

FileLists == UNION { [1..n -> Targets] : n \in 1..MaxPaths }

FlagSets == { g \in SUBSET FlagNames : Cardinality(g) <= MaxFlags }

Init ==
    /\ flags \in { from_matches(g) : g \in FlagSets }
    /\ files \in FileLists
    /\ idx = 1
    /\ pc = "loop"
    /\ dir = << >>
    /\ widths = NoWidths
    /\ row = 0
    /\ col = 0
    /\ out = << >>
    /\ errs = << >>
    /\ exit_code = 0
    /\ status = 0
    /\ nwerr = 0
    /\ render_err = { }

\* ---------------------------------------------------------------- positions

At(p, i, r, c) == [ pc |-> p, idx |-> i, row |-> r, col |-> c ]

\* The for loop goes on to the next path
NextPath(i) == At("loop", i + 1, 0, 0)

\* print_default at file r: the write for the file, the closing newline of the
\* comma-separated line, or the return
DefaultAt(i, r, v, fl) ==
    IF r <= Len(v) \/ (fl.comma_separate /\ r = Len(v) + 1)
    THEN At("default", i, r, 0)
    ELSE NextPath(i)

\* print_list's second loop at file r, or the return
ListAt(i, r, v) == IF r <= Len(v) THEN At("list", i, r, 1) ELSE NextPath(i)

\* if !flags.comma_separate && flags.show_list() { print_list } else { print_default }
RenderAt(i, v, fl) ==
    IF ~fl.comma_separate /\ show_list(fl) THEN At("widths", i, 0, 0)
    ELSE DefaultAt(i, 1, v, fl)

\* if multiple { writeln!(header)? }
OpenedAt(i, v, fl, many) == IF many THEN At("header", i, 0, 0) ELSE RenderAt(i, v, fl)

Goto(pos) ==
    /\ pc' = pos.pc
    /\ idx' = pos.idx
    /\ row' = pos.row
    /\ col' = pos.col

\* What main does next at a write call: the write, with its text and the
\* position behind it; File::time's Err; or process::exit on a failed lookup
Call ==
    CASE pc = "header" ->
            [ kind |-> "write", col |-> "header", text |-> "\n" \o files[idx] \o ":\n",
              next |-> RenderAt(idx, dir, flags) ]
      [] pc = "default" ->
            IF row <= Len(dir)
            THEN [ kind |-> "write", col |-> "name", text |-> DefaultField(dir[row], flags),
                   next |-> DefaultAt(idx, row + 1, dir, flags) ]
            ELSE [ kind |-> "write", col |-> "newline", text |-> "\n",
                   next |-> DefaultAt(idx, row + 1, dir, flags) ]
      [] pc = "list" ->
            LET c == Columns(flags)[col]
            IN  IF (c = "user" /\ ~user_ok(dir[row])) \/ (c = "group" /\ ~group_ok(dir[row]))
                THEN [ kind |-> "exit" ]
                ELSE IF c = "time" /\ ~time_ok(dir[row])
                THEN [ kind |-> "time_err" ]
                ELSE [ kind |-> "write", col |-> c, text |-> Field(dir[row], c, widths),
                       next |-> IF col < Len(Columns(flags))
                                THEN At("list", idx, row, col + 1)
                                ELSE ListAt(idx, row + 1, dir) ]
      [] OTHER -> [ kind |-> "none" ]

\* ------------------------------------------------------------------ actions

\* ReadDirErr as it would be if a path that does not open ended the run
ReadDirErrStops ==
    /\ pc = "loop" /\ idx <= Len(files)
    /\ ~CanOpen(files[idx])
    /\ errs' = Append(errs, "ls: cannot access '" \o files[idx] \o "'")
    /\ exit_code' = 1
    /\ Goto(At("loop", Len(files) + 1, 0, 0))
    /\ UNCHANGED << flags, files, dir, widths, out, status, nwerr, render_err >>

\* Err(err) => { eprintln!(..); exit_code = 1; }
ReadDirErr ==
    /\ pc = "loop" /\ idx <= Len(files)
    /\ ~CanOpen(files[idx])
    /\ errs' = Append(errs, "ls: cannot access '" \o files[idx] \o "'")
    /\ exit_code' = 1
    /\ Goto(NextPath(idx))
    /\ UNCHANGED << flags, files, dir, widths, out, status, nwerr, render_err >>

\* Ok(dir) => collect, filter, sort, insert . and ..
ReadDirOk ==
    /\ pc = "loop" /\ idx <= Len(files)
    /\ CanOpen(files[idx])
    /\ \E order \in Orders(Children(files[idx])) :
          LET v == Listing(files[idx], order, flags)
          IN  /\ dir' = v
              /\ Goto(OpenedAt(idx, v, flags, multiple))
    /\ widths' = NoWidths
    /\ UNCHANGED << flags, files, out, errs, exit_code, status, nwerr, render_err >>

\* print_list's first loop ends with the widths
WidthPass ==
    /\ pc = "widths"
    /\ ~LookupFails(dir, flags)
    /\ widths' = Widths(dir, flags)
    /\ Goto(ListAt(idx, 1, dir))
    /\ UNCHANGED << flags, files, dir, out, errs, exit_code, status, nwerr, render_err >>

\* LookupExit as it would be if the lookup's Err were passed on like a write's
LookupExitRecovers ==
    /\ IF pc = "widths" THEN LookupFails(dir, flags) ELSE Call.kind = "exit"
    /\ errs' = Append(errs, "ls: lookup failed")
    /\ exit_code' = 1
    /\ render_err' = render_err \cup { idx }
    /\ Goto(NextPath(idx))
    /\ UNCHANGED << flags, files, dir, widths, out, status, nwerr >>

\* Err(err) => { eprintln!("ls: {}", err); process::exit(1); }
LookupExit ==
    /\ IF pc = "widths" THEN LookupFails(dir, flags) ELSE Call.kind = "exit"
    /\ errs' = Append(errs, "ls: lookup failed")
    /\ pc' = "aborted"
    /\ status' = 1
    /\ UNCHANGED << flags, files, idx, dir, widths, row, col, out, exit_code, nwerr,
                    render_err >>

\* a write!, writeln! that returns Ok
WriteOk ==
    /\ Call.kind = "write"
    /\ out' = Append(out, [ path |-> idx, row |-> row, col |-> Call.col, text |-> Call.text ])
    /\ Goto(Call.next)
    /\ UNCHANGED << flags, files, dir, widths, errs, exit_code, status, nwerr, render_err >>

\* The renderer returns Err: exit_code = 1, and the for loop goes on
RendererErr ==
    /\ exit_code' = 1
    /\ render_err' = render_err \cup { idx }
    /\ Goto(NextPath(idx))
    /\ UNCHANGED << status, errs >>

\* main returns Err: the runtime prints it and the process ends with status 1
MainErr ==
    /\ errs' = Append(errs, "Error: write failed")
    /\ pc' = "failed"
    /\ status' = 1
    /\ UNCHANGED << idx, row, col, exit_code, render_err >>

\* a write!, writeln! that returns Err, passed on by ?
WriteErr ==
    /\ Call.kind = "write"
    /\ nwerr < MaxWriteErrors
    /\ nwerr' = nwerr + 1
    /\ IF pc = "header" THEN MainErr ELSE RendererErr
    /\ UNCHANGED << flags, files, dir, widths, out >>

\* write!(writer, "{} ", file.time()?)?: time() is Err
TimeErr ==
    /\ Call.kind = "time_err"
    /\ RendererErr
    /\ UNCHANGED << flags, files, dir, widths, out, nwerr >>

\* if exit_code != 0 { process::exit(exit_code); } Ok(())
Exit ==
    /\ pc = "loop" /\ idx > Len(files)
    /\ pc' = IF exit_code # 0 THEN "exited" ELSE "returned"
    /\ status' = exit_code
    /\ UNCHANGED << flags, files, idx, dir, widths, row, col, out, errs, exit_code, nwerr,
                    render_err >>

Next ==
    \/ ReadDirErr
    \/ ReadDirOk
    \/ WidthPass
    \/ LookupExit
    \/ WriteOk
    \/ WriteErr
    \/ TimeErr
    \/ Exit

Spec == Init /\ [][Next]_vars

\* ----------------------------------------------------------- the properties

\* The write calls that succeeded for the i-th target path, and their texts
OutOf(i) == LET Mine(e) == e.path = i IN SelectSeq(out, Mine)
TextsOf(i) == [k \in 1..Len(OutOf(i)) |-> OutOf(i)[k].text]

RECURSIVE Concat(_)
Concat(ss) == IF ss = << >> THEN "" ELSE Head(ss) \o Concat(Tail(ss))

\* What the output stream holds
Stdout == Concat([k \in 1..Len(out) |-> out[k].text])

UsesList == ~flags.comma_separate /\ show_list(flags)

RECURSIVE Flatten(_)
Flatten(ss) == IF ss = << >> THEN << >> ELSE Head(ss) \o Flatten(Tail(ss))

\* The texts of a full listing of the rows v: the header when several paths
\* were given, then every row
FullTexts(p, v) ==
    (IF multiple THEN << "\n" \o p \o ":\n" >> ELSE << >>)
    \o (IF UsesList
        THEN Flatten([r \in 1..Len(v) |->
                 [c \in 1..Len(Columns(flags)) |->
                     Field(v[r], Columns(flags)[c], Widths(v, flags))]])
        ELSE [r \in 1..Len(v) |-> DefaultField(v[r], flags)]
             \o (IF flags.comma_separate THEN << "\n" >> ELSE << >>))

\* The i-th target path is listed in full
FullyListed(i) ==
    \E order \in Orders(Children(files[i])) :
        TextsOf(i) = FullTexts(files[i], Listing(files[i], order, flags))

\* No renderer failed and no write failed
Rendered == nwerr = 0 /\ render_err = { }

\* C1: a target path that does not open gets a diagnostic and sets the exit
\* status to 1 without stopping the run: when the run ends with every renderer
\* succeeding, every path was attempted, every path that opens is listed in
\* full behind its header, and the exit status is 1 iff some path did not open.
C1_OpenFailureDoesNotStopRun ==
    /\ \A i \in 1..Len(files) :
          (~CanOpen(files[i]) /\ idx > i) =>
              /\ exit_code = 1
              /\ \E k \in 1..Len(errs) : errs[k] = "ls: cannot access '" \o files[i] \o "'"
              /\ OutOf(i) = << >>
    /\ (pc \in { "returned", "exited" } /\ Rendered) =>
          /\ idx = Len(files) + 1
          /\ \A j \in 1..Len(files) : CanOpen(files[j]) => FullyListed(j)
          /\ status = IF \E i \in 1..Len(files) : ~CanOpen(files[i]) THEN 1 ELSE 0
    /\ (Ended /\ \E i \in 1..idx - 1 : ~CanOpen(files[i])) => status = 1

\* C1's case: the first of two paths does not open, the second is listed
C1_Witness ==
    /\ pc = "exited" /\ status = 1 /\ Rendered
    /\ files = << "/nx", "/d" >>
    /\ Len(OutOf(2)) > 1
    /\ OutOf(2)[1].col = "header"

\* C2: a write call that fails, on the header line or on a row, sets the exit
\* code to 1 and the loop goes on to the next target path.
C2_WriteErrorDoesNotAbort ==
    [][nwerr' # nwerr => (exit_code' = 1 /\ pc' = "loop" /\ idx' = idx + 1)]_vars

\* The names of the rows v, joined by ", "
RECURSIVE JoinNames(_)
JoinNames(v) ==
    IF v = << >> THEN ""
    ELSE IF Len(v) = 1 THEN Str(file_name(v[1]))
    ELSE Str(file_name(v[1])) \o ", " \o JoinNames(Tail(v))

\* C3: in comma-separated mode the output of one path is its names joined by
\* ", ", the separator only between two names, and one newline behind the last.
C3_CommaSeparatedLine ==
    (flags.comma_separate /\ ~multiple /\ pc = "returned" /\ Rendered) =>
        Stdout = JoinNames(dir) \o "\n"

\* dir holds the rows of the path the loop is at
Opened == pc \in { "header", "widths", "list", "default" }

HasSynthetic(fl) == fl.all \/ fl.no_sort

\* The rows that come from read_dir: all but the synthetic first two
Entries(v, fl) == IF HasSynthetic(fl) THEN SubSeq(v, 3, Len(v)) ELSE v

\* The same options with -r given iff it was not
Flip(fl) == [fl EXCEPT !.reverse = ~fl.reverse]

\* C4, as stated: with a sort key in effect, the rows listed with the reverse
\* flag are the rows listed without it, in the exact reverse order.
C4_ReverseIsExactReverse ==
    (Opened /\ ~flags.no_sort) =>
        \A order \in Orders(Children(files[idx])) :
            Listing(files[idx], order, flags) = dir =>
                dir = Reverse(Listing(files[idx], order, Flip(flags)))

\* C4, amended: with a sort key in effect, the entries read from the directory
\* are listed with the reverse flag in the exact reverse of their order without
\* it; the synthetic rows . and .. are the same first two rows of both listings.
C4_ReverseOfEntries ==
    (Opened /\ ~flags.no_sort) =>
        \A order \in Orders(Children(files[idx])) :
            Listing(files[idx], order, flags) = dir =>
                LET other == Listing(files[idx], order, Flip(flags))
                IN  /\ Entries(dir, flags) = Reverse(Entries(other, flags))
                    /\ Len(other) = Len(dir)
                    /\ HasSynthetic(flags) => SubSeq(dir, 1, 2) = SubSeq(other, 1, 2)

\* C4's case: three entries listed by size, reversed, behind . and ..
C4_Witness ==
    /\ Opened /\ flags.reverse /\ flags.sort_size /\ flags.all
    /\ files[idx] = "/d"
    /\ Len(Entries(dir, flags)) = 3
    /\ Entries(dir, flags)[1].name = << "a" >>

LowerCodes(name) == [i \in 1..Len(name) |-> Code(ToLowerChar(name[i]))]

\* The rows v are in the order of the sort key the options select
InKeyOrder(v, fl) ==
    \A i, j \in 1..Len(v) :
        i < j =>
            IF fl.time
            THEN IF fl.last_accessed
                 THEN v[i].metadata.atime >= v[j].metadata.atime
                 ELSE v[i].metadata.mtime >= v[j].metadata.mtime
            ELSE IF fl.sort_size
            THEN v[i].metadata.size >= v[j].metadata.size
            ELSE SeqLe(LowerCodes(v[i].name), LowerCodes(v[j].name))

\* C5, as stated: sorted and not reversed, the rows listed are largest first
\* (size sort), newest first (time sort, by modification or access time), or
\* in non-decreasing order of their lower-cased names (name sort).
C5_ListedInKeyOrder ==
    (Opened /\ ~flags.no_sort /\ ~flags.reverse) => InKeyOrder(dir, flags)

\* C5, amended: the same of the entries read from the directory; the synthetic
\* rows . and .. come first whatever their size, time or name.
C5_EntriesInKeyOrder ==
    (Opened /\ ~flags.no_sort /\ ~flags.reverse) => InKeyOrder(Entries(dir, flags), flags)

\* C5's case: the three entries of /d by access time, newest first
C5_Witness ==
    /\ Opened /\ ~flags.no_sort /\ ~flags.reverse
    /\ flags.time /\ flags.last_accessed /\ flags.almost_all
    /\ files[idx] = "/d"
    /\ [i \in 1..Len(dir) |-> dir[i].name] = << << ".", "h" >>, << "B" >>, << "a" >> >>

\* The columns whose width print_list computes, and a file's value in one
VarColumns == { "inode", "blocks", "hard_links", "user", "group", "size" }

Value(file, c) ==
    CASE c = "inode"      -> inode(file)
      [] c = "blocks"     -> blocks(file)
      [] c = "hard_links" -> hard_links(file)
      [] c = "user"       -> user(file)
      [] c = "group"      -> group(file)
      [] c = "size"       -> size(file)

Enabled(c) == \E k \in 1..Len(Columns(flags)) : Columns(flags)[k] = c

\* The greatest length of a column's values over the rows v
MaxLen(v, c) ==
    LET lens == { Len(Value(v[i], c)) : i \in 1..Len(v) }
    IN  CHOOSE m \in lens : \A n \in lens : n <= m

\* C6: in print_list the width of every enabled variable-width column is the
\* greatest length of the column's values over all displayed rows, . and ..
\* included, and every field written in the column has exactly that width
\* (and the separating space behind it).
C6_ColumnWidths ==
    pc = "list" =>
        \A c \in VarColumns :
            Enabled(c) =>
                /\ widths[c] = MaxLen(dir, c)
                /\ \A k \in 1..Len(out) :
                      (out[k].path = idx /\ out[k].col = c) =>
                          Len(out[k].text) = MaxLen(dir, c) + 1

\* C6's case: the last row of /d listed with . and .., whose link count alone
\* has two digits, every column enabled
C6_Witness ==
    /\ pc = "list" /\ flags.no_sort /\ files[idx] = "/d"
    /\ row = Len(dir) /\ Len(dir) = 4
    /\ Columns(flags)[col] = "name"
    /\ widths.hard_links = 2 /\ widths.size = 4 /\ widths.user = 3

\* Row r of the i-th path has its newline; or it is the row being written
RowComplete(i, r) ==
    \E k \in 1..Len(out) : out[k].path = i /\ out[k].row = r /\ out[k].col = "newline"
InProgress(i, r) == pc = "list" /\ idx = i /\ row = r

\* C7: the output holds no partial row: every long-format row that was started
\* is written through its newline (or is the row being written), unless the
\* process has stopped on a fatal error.
C7_NoPartialRow ==
    UsesList =>
        \A k \in 1..Len(out) :
            out[k].col # "header" =>
                \/ RowComplete(out[k].path, out[k].row)
                \/ InProgress(out[k].path, out[k].row)
                \/ pc \in { "aborted", "failed" }

\* C8: with show-all or no-sort the first two rows are . (the directory) and
\* .. (its parent, or the directory itself at the root), whatever the sort key
\* and the reverse flag; with neither flag no row is named . or ..
C8_SyntheticRowsFirst ==
    Opened =>
        IF flags.all \/ flags.no_sort
        THEN /\ Len(dir) >= 2
             /\ dir[1].name = << "." >>
             /\ dir[1].path = files[idx]
             /\ dir[1].metadata = Metadata(files[idx])
             /\ dir[2].name = << ".", "." >>
             /\ dir[2].path = (IF files[idx] = "/" THEN "/" ELSE Parent(files[idx]))
             /\ dir[2].metadata = Metadata(dir[2].path)
             /\ \A r \in 3..Len(dir) : dir[r].name \notin { << "." >>, << ".", "." >> }
             /\ \A k \in 1..Len(out) :
                   (out[k].path = idx /\ out[k].col = "name" /\ ~UsesList) =>
                       out[k].text = DefaultField(dir[out[k].row], flags)
        ELSE \A r \in 1..Len(dir) : dir[r].name \notin { << "." >>, << ".", "." >> }

\* C8's case: the root, largest first and reversed: .. is the root itself
C8_Witness ==
    /\ pc = "default" /\ row = 3
    /\ flags.all /\ flags.reverse /\ flags.sort_size
    /\ files[idx] = "/"
    /\ dir[2].path = "/"
    /\ Len(OutOf(idx)) = 2

\* C9: without show_hidden the names read from the directory that are listed
\* are exactly the directory's names that do not begin with a dot, each once,
\* under every sort key and reverse setting.
C9_HiddenFilter ==
    (Opened /\ ~show_hidden(flags)) =>
        LET rows == Entries(dir, flags)
        IN  /\ { rows[r].name : r \in 1..Len(rows) }
                   = { n \in Children(files[idx]) : n[1] # "." }
            /\ Len(rows) = Cardinality({ n \in Children(files[idx]) : n[1] # "." })

\* C9's case: /d, whose entry .h is dropped, by size and reversed
C9_Witness ==
    /\ Opened /\ ~show_hidden(flags) /\ flags.sort_size /\ flags.reverse
    /\ files[idx] = "/d"
    /\ Len(dir) = 2

\* C10: in long format an owner, or a group when the group column is enabled,
\* that does not resolve ends the process in the width pass with status 1:
\* nothing is written by that step, no row of that path is in the output, no
\* later path is processed, and nothing happens afterwards.
C10_LookupFailureIsFatal ==
    /\ [][(pc = "widths" /\ LookupFails(dir, flags)) =>
              (pc' = "aborted" /\ status' = 1 /\ out' = out /\ idx' = idx)]_vars
    /\ [][pc # "aborted"]_vars
    /\ [](pc = "list" => ~LookupFails(dir, flags))
    /\ [](pc = "aborted" =>
              /\ status = 1
              /\ \A k \in 1..Len(out) :
                    out[k].path < idx \/ (out[k].path = idx /\ out[k].col = "header"))

\* C10's case: an entry of the second path has a group that does not resolve;
\* the first path's listing and the second's header are written
C10_Witness ==
    /\ pc = "aborted" /\ status = 1 /\ idx = 2
    /\ files = << "/d", "/" >> /\ flags.list /\ ~flags.no_owner
    /\ Len(OutOf(1)) > 1
    /\ Len(OutOf(2)) = 1

====
